---------------------------- MODULE Spec2Model ----------------------------
(***************************************************************************)
(* Model of the two command-line tools of this repository:                 *)
(*   prepare-commit-msg.py  (the "commit" tool)                            *)
(*   keep-a-changelog.py    (the "changelog" tool)                         *)
(* Text is a sequence of one-character strings. Python values are records  *)
(* tagged by their type in field t.                                        *)
(***************************************************************************)
EXTENDS Integers, Sequences, FiniteSets, TLC

VARIABLES
    tool,            \* which script runs: "commit" or "changelog"
    pc,              \* position of the run in main / of the function under study
    isRepo,          \* git rev-parse --git-dir succeeds
    openSource,      \* --open-source flag (commit tool)
    changelogStaged, \* stdout of git diff --cached --name-only -- <changelog>
    diffOut,         \* stdout of git diff --cached ...
    apiKey,          \* os.getenv("OPENROUTER_API_KEY"), a Python value
    writable,        \* open(filename, "w") succeeds
    file0,           \* destination file at the start of the run
    file,            \* destination file now
    httpCalls,       \* number of requests.post calls performed
    writes,          \* number of times the destination file was written
    response,        \* value returned by make_api_request / function input
    result,          \* outcome of the extraction / validation call
    message,         \* argument of validate_commit_message
    valid,           \* what validate_commit_message returned
    out,             \* messages reported through click.echo (debug excluded)
    exc              \* uncaught exception that ended the process, or "none"

vars == <<tool, pc, isRepo, openSource, changelogStaged, diffOut, apiKey,
          writable, file0, file, httpCalls, writes, response, result, message,
          valid, out, exc>>

---------------------------------------------------------------------------
(* Characters and text                                                     *)

BS == "\\"
NL == "\n"
SP == " "
QT == "\""
TAB == "\t"

\* Python's \s for str patterns (the ASCII members)
Whitespace == {SP, NL, TAB, "\r", "\f"}

\* [a-zA-Z]
Letters ==
    {"a","b","c","d","e","f","g","h","i","j","k","l","m",
     "n","o","p","q","r","s","t","u","v","w","x","y","z",
     "A","B","C","D","E","F","G","H","I","J","K","L","M",
     "N","O","P","Q","R","S","T","U","V","W","X","Y","Z"}

IsSpace(c) == c \in Whitespace
IsLetter(c) == c \in Letters

Drop(s, k) == SubSeq(s, k + 1, Len(s))
Take(s, k) == SubSeq(s, 1, k)

\* s has the literal text p at (1-based) position i
HasAt(s, p, i) ==
    /\ i >= 1
    /\ i + Len(p) - 1 <= Len(s)
    /\ \A j \in 1..Len(p) : s[i + j - 1] = p[j]

StartsWith(s, p) == HasAt(s, p, 1)

\* Bounded text: every sequence over alphabet A of length at most n
RECURSIVE SeqsUpTo(_, _)
SeqsUpTo(A, n) ==
    IF n = 0 THEN {<<>>}
    ELSE LET shorter == SeqsUpTo(A, n - 1)
         IN  shorter \cup {Append(s, c) : s \in {x \in shorter : Len(x) = n - 1}, c \in A}

---------------------------------------------------------------------------
(* The regular-expression substitutions of the sanitization                *)

\* re.sub(<literal pat>, repl, s): leftmost non-overlapping occurrences
RECURSIVE ReSubLiteral(_, _, _)
ReSubLiteral(pat, repl, s) ==
    IF Len(s) = 0 THEN <<>>
    ELSE IF StartsWith(s, pat)
         THEN repl \o ReSubLiteral(pat, repl, Drop(s, Len(pat)))
         ELSE <<Head(s)>> \o ReSubLiteral(pat, repl, Tail(s))

\* re.sub(r'\\n', '\n', s)
UnescapeNewlines(s) == ReSubLiteral(<<BS, "n">>, <<NL>>, s)

\* re.sub(r'\\r', '', s)
RemoveEscapedCR(s) == ReSubLiteral(<<BS, "r">>, <<>>, s)

\* number of leading whitespace characters
RECURSIVE LeadingWs(_)
LeadingWs(s) ==
    IF Len(s) > 0 /\ IsSpace(Head(s)) THEN 1 + LeadingWs(Tail(s)) ELSE 0

\* number of trailing whitespace characters
RECURSIVE TrailingWs(_)
TrailingWs(s) ==
    IF Len(s) > 0 /\ IsSpace(s[Len(s)]) THEN 1 + TrailingWs(Take(s, Len(s) - 1)) ELSE 0

\* a plausible slip: only blanks are stripped, newlines are kept
RECURSIVE LeadingBlanks(_)
LeadingBlanks(s) ==
    IF Len(s) > 0 /\ Head(s) = SP THEN 1 + LeadingBlanks(Tail(s)) ELSE 0

StripLeadingBlanksOnly(s) == Drop(s, LeadingBlanks(s))

\* re.sub(r'^\s+', '', s): ^ is the start of the text (no MULTILINE)
StripLeading(s) == Drop(s, LeadingWs(s))

\* re.sub(r'\s+$', '', s): the greedy run reaches the end of the text
StripTrailing(s) == Take(s, Len(s) - TrailingWs(s))

\* number of letters at the start of s
RECURSIVE LeadingLetters(_)
LeadingLetters(s) ==
    IF Len(s) > 0 /\ IsLetter(Head(s)) THEN 1 + LeadingLetters(Tail(s)) ELSE 0

\* re.sub(r'\\[a-zA-Z]+', '', s): a backslash and the greedy run of letters
RECURSIVE RemoveBackslashLetters(_)
RemoveBackslashLetters(s) ==
    IF Len(s) = 0 THEN <<>>
    ELSE IF Head(s) = BS /\ LeadingLetters(Tail(s)) > 0
         THEN RemoveBackslashLetters(Drop(s, 1 + LeadingLetters(Tail(s))))
         ELSE <<Head(s)>> \o RemoveBackslashLetters(Tail(s))

\* the text after the two strips (value of the local after the fourth re.sub)
Stripped(s) == StripTrailing(StripLeading(RemoveEscapedCR(UnescapeNewlines(s))))

\* the five substitutions in the order of the source
Sanitize(s) == RemoveBackslashLetters(Stripped(s))

---------------------------------------------------------------------------
(* Python values and the API response                                      *)

PyNone == [t |-> "None", s |-> <<>>]
PyStr(s) == [t |-> "str", s |-> s]

\* Python truthiness of None and str
Truthy(v) == v.t = "str" /\ Len(v.s) > 0

\* What response.json() can hand back, and None for a failed request.
\*   kind "None"          the request failed (make_api_request returned None)
\*   kind "wf"            {"choices":[{"message":{"content": <text>}}]}
\*   kind "wf_null"       {"choices":[{"message":{"content": null}}]}
\*   kind "dict_nokey"    an object without "choices"; text is its raw body
\*   kind "dict_empty"    {}
\*   kind "choices_empty" {"choices": []}
\*   kind "choices_null"  {"choices": null}
\*   kind "list"          a non-empty top-level array
\*   kind "str"           a top-level string, text
Resp(kind, text) == [kind |-> kind, text |-> text]

NoText == <<>>

\* Python truthiness of the response object ("if not response")
ResponseTruthy(r) ==
    CASE r.kind = "None" -> FALSE
      [] r.kind = "dict_empty" -> FALSE
      [] r.kind = "str" -> Len(r.text) > 0
      [] OTHER -> TRUE

\* response["choices"][0]["message"]["content"]: the value, or the exception
PrimaryLookup(r) ==
    CASE r.kind = "wf" -> [exc |-> "none", val |-> PyStr(r.text)]
      [] r.kind = "wf_null" -> [exc |-> "none", val |-> PyNone]
      [] r.kind \in {"dict_nokey", "dict_empty"} -> [exc |-> "KeyError", val |-> PyNone]
      [] r.kind = "choices_empty" -> [exc |-> "IndexError", val |-> PyNone]
      [] OTHER -> [exc |-> "TypeError", val |-> PyNone]

\* the literal  "content":"  that opens the fallback pattern
ContentKey == <<QT, "c", "o", "n", "t", "e", "n", "t", QT, ":", QT>>

\* length of the run of non-quote characters at the start of s
RECURSIVE NonQuoteRun(_)
NonQuoteRun(s) ==
    IF Len(s) > 0 /\ Head(s) # QT THEN 1 + NonQuoteRun(Tail(s)) ELSE 0

\* the pattern "content":"([^"]*)" matches at position i of s
ContentMatchAt(s, i) ==
    /\ HasAt(s, ContentKey, i)
    /\ LET rest == Drop(s, i + Len(ContentKey) - 1)
       IN  NonQuoteRun(rest) < Len(rest)

\* re.search(r'"content":"([^"]*)"', s) on a str: leftmost match, group 1
ReSearchContent(s) ==
    LET hits == {i \in 1..Len(s) : ContentMatchAt(s, i)}
    IN  IF hits = {} THEN [found |-> FALSE, group |-> <<>>]
        ELSE LET i == CHOOSE k \in hits : \A j \in hits : k <= j
                 rest == Drop(s, i + Len(ContentKey) - 1)
             IN  [found |-> TRUE, group |-> Take(rest, NonQuoteRun(rest))]

\* the except branch: re.search needs a str, anything else raises TypeError;
\* no match leaves None
FallbackParse(r) ==
    IF r.kind # "str" THEN [raised |-> "TypeError", val |-> PyNone]
    ELSE LET m == ReSearchContent(r.text)
         IN  [raised |-> "none", val |-> IF m.found THEN PyStr(m.group) ELSE PyNone]

\* try/except of the extraction: the value bound before the cleaning
LookupOrFallback(r) ==
    LET look == PrimaryLookup(r)
    IN  IF look.exc = "none" THEN [raised |-> "none", val |-> look.val]
        ELSE FallbackParse(r)

\* the value debug_log returns (it has no return statement)
DebugLogReturn == PyNone

\* outcome of a call: the exception it raised, the value it returned, and
\* the local text after the fourth substitution
Raised(e) == [raised |-> e, val |-> PyNone, stripped |-> <<>>]
Returned(v, mid) == [raised |-> "none", val |-> v, stripped |-> mid]
NoResult == Returned(PyNone, <<>>)

\* extract_commit_message(response, debug_log); re.sub on None raises
ExtractCommitMessage(r) ==
    LET got == LookupOrFallback(r)
    IN  IF got.raised # "none" THEN Raised(got.raised)
        ELSE IF got.val.t # "str" THEN Raised("TypeError")
        ELSE Returned(PyStr(Sanitize(got.val.s)), Stripped(got.val.s))

\* extract_generated_changelog(response, debug_log): the same cleaning, then
\* the local is rebound to what debug_log returns, and that is returned
ExtractGeneratedChangelog(r) ==
    LET got == LookupOrFallback(r)
    IN  IF got.raised # "none" THEN Raised(got.raised)
        ELSE IF got.val.t # "str" THEN Raised("TypeError")
        ELSE Returned(DebugLogReturn, Stripped(got.val.s))

---------------------------------------------------------------------------
(* validate_commit_message                                                 *)

ConventionalTypes ==
    { <<"f","e","a","t">>, <<"f","i","x">>, <<"d","o","c","s">>,
      <<"s","t","y","l","e">>, <<"r","e","f","a","c","t","o","r">>,
      <<"p","e","r","f">>, <<"t","e","s","t">>, <<"b","u","i","l","d">>,
      <<"c","i">>, <<"c","h","o","r","e">>, <<"r","e","v","e","r","t">> }

\* $ without MULTILINE at offset k of s (k characters consumed): the end of
\* the text, or just before a newline that ends the text
AtDollar(s, k) ==
    \/ k = Len(s)
    \/ k = Len(s) - 1 /\ s[Len(s)] = NL

\* every character of s[a..b] is matched by . (anything but a newline)
AllDot(s, a, b) == \A i \in a..b : s[i] # NL

\* s is matched by  ": .+$"
MatchesColonDescription(s) ==
    /\ StartsWith(s, <<":", SP>>)
    /\ \E k \in 3..Len(s) : AllDot(s, 3, k) /\ AtDollar(s, k)

\* s is matched by  "(\(.+\))?: .+$"
MatchesScopeDescription(s) ==
    \/ MatchesColonDescription(s)
    \/ /\ StartsWith(s, <<"(">>)
       /\ \E j \in 3..Len(s) :
            /\ s[j] = ")"
            /\ AllDot(s, 2, j - 1)
            /\ MatchesColonDescription(Drop(s, j))

\* re.match(pattern, message) is not None
ValidateCommitMessage(m) ==
    \E ty \in ConventionalTypes :
        StartsWith(m, ty) /\ MatchesScopeDescription(Drop(m, Len(ty)))

---------------------------------------------------------------------------
(* Inputs of a run                                                         *)

\* longest generated text enumerated for the extraction functions
MaxLen == 4

ERR_NOT_REPO == "ERROR: Not in a git repository"
INFO_SKIP == "INFO: Skipping changelog update"
INFO_NO_STAGED == "INFO: No staged changes found"
ERR_NO_API_KEY == "ERROR: No API key found"
ERR_GENERATE == "ERROR: Failed to generate release notes"
ERR_EXTRACT == "ERROR: Failed to extract"
ERR_FORMAT == "ERROR: Generated message does not follow conventional commit format"
ERR_WRITE == "ERROR: Failed to write"
OK_WRITTEN == "Release notes successfully written"

OldText == <<"o", "l", "d">>
FeatX == <<"f","e","a","t",":",SP,"x">>
AddedY == <<"a","d","d","e","d",SP,"y">>
HelloWorld == <<"h","e","l","l","o",SP,"w","o","r","l","d">>

\* stdout of the git diff commands
GitOutputs == { <<>>, <<NL>>, <<"M", TAB, "f", NL>> }

\* the environment variable: unset, empty, or set
ApiKeys == { PyNone, PyStr(<<>>), PyStr(<<"k">>) }

\* bodies the endpoint answers with on HTTP 2xx
ApiResponses ==
    { Resp("wf", FeatX), Resp("wf", AddedY), Resp("wf", <<SP, NL>>),
      Resp("wf", <<>>), Resp("wf_null", NoText),
      Resp("dict_nokey", ContentKey \o HelloWorld \o <<QT>>),
      Resp("dict_empty", NoText), Resp("choices_empty", NoText),
      Resp("choices_null", NoText), Resp("list", NoText),
      Resp("str", ContentKey \o FeatX \o <<QT>>),
      Resp("dict_nokey", <<"e", "r", "r">>),
      Resp("str", <<"o", "o", "p", "s">>), Resp("str", <<>>) }

---------------------------------------------------------------------------
(* Helpers of main                                                         *)

\* bytes.strip() / str.strip()
PyStrip(s) == StripTrailing(StripLeading(s))

\* a slip: the command's exit status (0) is tested instead of its output
IsChangelogStagedByStatus(stdout) == FALSE

\* is_changelog_staged: bool(result.stdout.strip())
IsChangelogStaged(stdout) == Len(PyStrip(stdout)) > 0

\* get_git_diff: result.stdout.decode("utf-8").strip()
GetGitDiff(stdout) == PyStrip(stdout)

\* truthiness of the CompletedProcess object the commit tool tests: the
\* class defines neither __bool__ nor __len__
CompletedProcessTruthy(stdout) == TRUE

\* a slip: only an unset variable is refused
ApiKeyIsNone(k) == k.t = "None"

\* not api_key
ApiKeyMissing(k) == ~Truthy(k)

\* a slip: the request is sent again when it is sent
RequestsPostTwice(n) == n + 2

\* requests.post: one request on the wire
RequestsPost(n) == n + 1

\* positional parameters of extract_commit_message
ExtractParams == 2

\* positional arguments main passes to extract_commit_message
CommitCallArgs == 1

\* write_file: the file's content afterwards and the value returned
WriteFile(old, content, canOpen) ==
    IF canOpen THEN [content |-> content, ok |-> TRUE]
    ELSE [content |-> old, ok |-> FALSE]

Return(msgs) ==
    /\ pc' = "done"
    /\ out' = out \cup msgs

Crash(e) ==
    /\ pc' = "crashed"
    /\ exc' = e

inputs == <<tool, isRepo, openSource, changelogStaged, diffOut, apiKey, writable, file0>>
untouched == <<file, httpCalls, writes, response, result, message, valid>>

---------------------------------------------------------------------------
(* The commit tool: main of prepare-commit-msg.py                          *)

\* if not is_git_repository(): report and return
CommitCheckRepo ==
    /\ tool = "commit" /\ pc = "start"
    /\ IF ~isRepo THEN Return({ERR_NOT_REPO}) ELSE pc' = "changes" /\ out' = out
    /\ UNCHANGED <<inputs, untouched, exc>>

\* changes = subprocess.run(git diff --cached ...); if not changes: return
CommitGetChanges ==
    /\ tool = "commit" /\ pc = "changes"
    /\ IF ~CompletedProcessTruthy(diffOut)
       THEN Return({INFO_NO_STAGED})
       ELSE pc' = "apikey" /\ out' = out
    /\ UNCHANGED <<inputs, untouched, exc>>

\* api_key = os.getenv(...); if not api_key: report and return
CommitCheckApiKey ==
    /\ tool = "commit" /\ pc = "apikey"
    /\ IF ApiKeyMissing(apiKey) THEN Return({ERR_NO_API_KEY})
       ELSE pc' = "request" /\ out' = out
    /\ UNCHANGED <<inputs, untouched, exc>>

\* response = make_api_request(...): the parsed body, or None on a
\* RequestException
CommitRequest ==
    /\ tool = "commit" /\ pc = "request"
    /\ httpCalls' = RequestsPost(httpCalls)
    /\ \E r \in ApiResponses \cup {Resp("None", NoText)} : response' = r
    /\ pc' = "tail"
    /\ UNCHANGED <<inputs, file, writes, result, message, valid, out, exc>>

\* from the call of extract_commit_message to the end of main: the call
\* passes one argument to a function of two, which raises TypeError before
\* the function body runs
CommitTail ==
    /\ tool = "commit" /\ pc = "tail"
    /\ IF CommitCallArgs # ExtractParams
       THEN /\ Crash("TypeError")
            /\ UNCHANGED <<file, writes, result, message, valid, out>>
       ELSE LET r == ExtractCommitMessage(response)
            IN  /\ result' = r
                /\ IF r.raised # "none"
                   THEN /\ Crash(r.raised)
                        /\ UNCHANGED <<file, writes, message, valid, out>>
                   ELSE IF ~Truthy(r.val)
                   THEN /\ Return({ERR_EXTRACT})
                        /\ UNCHANGED <<file, writes, message, valid, exc>>
                   ELSE LET ok == ValidateCommitMessage(r.val.s)
                            w  == WriteFile(file, r.val.s, writable)
                        IN  /\ message' = r.val.s
                            /\ valid' = ok
                            /\ file' = w.content
                            /\ writes' = IF w.ok THEN writes + 1 ELSE writes
                            /\ Return((IF ok THEN {} ELSE {ERR_FORMAT})
                                      \cup (IF w.ok THEN {} ELSE {ERR_WRITE}))
                            /\ exc' = exc
    /\ UNCHANGED <<inputs, httpCalls, response>>

---------------------------------------------------------------------------
(* The changelog tool: main of keep-a-changelog.py                         *)

\* if not is_git_repository(): report and return
ChangelogCheckRepo ==
    /\ tool = "changelog" /\ pc = "start"
    /\ IF ~isRepo THEN Return({ERR_NOT_REPO}) ELSE pc' = "staged" /\ out' = out
    /\ UNCHANGED <<inputs, untouched, exc>>

\* if is_changelog_staged(changelog_filename): report the skip and return
ChangelogCheckStaged ==
    /\ tool = "changelog" /\ pc = "staged"
    /\ IF IsChangelogStaged(changelogStaged) THEN Return({INFO_SKIP})
       ELSE pc' = "changes" /\ out' = out
    /\ UNCHANGED <<inputs, untouched, exc>>

\* changes = get_git_diff(); if not changes: report and return
ChangelogGetChanges ==
    /\ tool = "changelog" /\ pc = "changes"
    /\ IF Len(GetGitDiff(diffOut)) = 0 THEN Return({INFO_NO_STAGED})
       ELSE pc' = "apikey" /\ out' = out
    /\ UNCHANGED <<inputs, untouched, exc>>

\* the current changelog is read into the prompt, then
\* api_key = os.getenv(...); if not api_key: report and return
ChangelogCheckApiKey ==
    /\ tool = "changelog" /\ pc = "apikey"
    /\ IF ApiKeyMissing(apiKey) THEN Return({ERR_NO_API_KEY})
       ELSE pc' = "request" /\ out' = out
    /\ UNCHANGED <<inputs, untouched, exc>>

\* response = make_api_request(...)
ChangelogRequest ==
    /\ tool = "changelog" /\ pc = "request"
    /\ httpCalls' = RequestsPost(httpCalls)
    /\ \E r \in ApiResponses \cup {Resp("None", NoText)} : response' = r
    /\ pc' = "tail"
    /\ UNCHANGED <<inputs, file, writes, result, message, valid, out, exc>>

\* from "if not response" to the end of main
ChangelogTail ==
    /\ tool = "changelog" /\ pc = "tail"
    /\ IF ~ResponseTruthy(response)
       THEN /\ Return({ERR_GENERATE})
            /\ UNCHANGED <<file, writes, result, exc>>
       ELSE LET r == ExtractGeneratedChangelog(response)
            IN  /\ result' = r
                /\ IF r.raised # "none"
                   THEN /\ Crash(r.raised)
                        /\ UNCHANGED <<file, writes, out>>
                   ELSE IF ~Truthy(r.val)
                   THEN /\ Return({ERR_EXTRACT})
                        /\ UNCHANGED <<file, writes, exc>>
                   ELSE LET w == WriteFile(file, r.val.s, writable)
                        IN  /\ file' = w.content
                            /\ writes' = IF w.ok THEN writes + 1 ELSE writes
                            /\ Return(IF w.ok THEN {OK_WRITTEN} ELSE {ERR_WRITE})
                            /\ exc' = exc
    /\ UNCHANGED <<inputs, httpCalls, response, message, valid>>

---------------------------------------------------------------------------
(* Runs of the tools                                                       *)

Init ==
    /\ tool \in {"commit", "changelog"}
    /\ pc = "start"
    /\ isRepo \in BOOLEAN
    /\ openSource \in (IF tool = "commit" THEN BOOLEAN ELSE {FALSE})
    /\ changelogStaged \in (IF isRepo /\ tool = "changelog"
                            THEN {<<>>, <<"C", NL>>} ELSE {<<>>})
    /\ diffOut \in (IF isRepo THEN GitOutputs ELSE {<<>>})
    /\ apiKey \in ApiKeys
    /\ writable \in BOOLEAN
    /\ file0 \in {<<>>, OldText}
    /\ file = file0
    /\ httpCalls = 0
    /\ writes = 0
    /\ response = Resp("None", NoText)
    /\ result = NoResult
    /\ message = <<>>
    /\ valid = FALSE
    /\ out = {}
    /\ exc = "none"

Next ==
    \/ CommitCheckRepo
    \/ CommitGetChanges
    \/ CommitCheckApiKey
    \/ CommitRequest
    \/ CommitTail
    \/ ChangelogCheckRepo
    \/ ChangelogCheckStaged
    \/ ChangelogGetChanges
    \/ ChangelogCheckApiKey
    \/ ChangelogRequest
    \/ ChangelogTail

Spec == Init /\ [][Next]_vars

---------------------------------------------------------------------------
(* The extraction functions on their own                                   *)

\* characters of the generated texts: the backslash, letters that follow it,
\* two kinds of whitespace and one other character
TextAlphabet == {BS, "n", "r", "t", SP, NL, ":"}

\* characters of the quoted run in a raw body
BodyAlphabet == {"h", SP, QT}

OtherKey == <<QT, "c", "o", "n", "t", "e", "x", "t", QT, ":", QT>>

\* raw bodies: something, a key, a quoted run, something
RawBodies ==
    { pre \o key \o body \o post :
        pre \in {<<>>, <<"{">>, ContentKey},
        key \in {ContentKey, OtherKey, <<>>},
        body \in SeqsUpTo(BodyAlphabet, MaxLen),
        post \in {<<>>, <<QT, "}">>} }

ExtractInputs ==
    {Resp("wf", s) : s \in SeqsUpTo(TextAlphabet, MaxLen)}
    \cup {Resp(k, raw) : k \in {"str", "dict_nokey"}, raw \in RawBodies}
    \cup {Resp(k, NoText) : k \in {"None", "wf_null", "dict_empty", "choices_empty",
                                   "choices_null", "list"}}

InitExtract ==
    /\ tool = "none"
    /\ pc = "ext_start"
    /\ response \in ExtractInputs
    /\ isRepo = TRUE /\ openSource = FALSE
    /\ changelogStaged = <<>> /\ diffOut = <<>>
    /\ apiKey = PyNone /\ writable = TRUE
    /\ file0 = <<>> /\ file = <<>>
    /\ httpCalls = 0 /\ writes = 0
    /\ result = NoResult
    /\ message = <<>> /\ valid = FALSE
    /\ out = {} /\ exc = "none"

\* extract_commit_message(response, debug_log)
ApplyExtractCommit ==
    /\ pc = "ext_start"
    /\ result' = ExtractCommitMessage(response)
    /\ pc' = "ext_commit"
    /\ UNCHANGED <<inputs, file, httpCalls, writes, response, message, valid, out, exc>>

\* extract_generated_changelog(response, debug_log)
ApplyExtractChangelog ==
    /\ pc = "ext_start"
    /\ result' = ExtractGeneratedChangelog(response)
    /\ pc' = "ext_changelog"
    /\ UNCHANGED <<inputs, file, httpCalls, writes, response, message, valid, out, exc>>

NextExtract == ApplyExtractCommit \/ ApplyExtractChangelog

SpecExtract == InitExtract /\ [][NextExtract]_vars

---------------------------------------------------------------------------
(* validate_commit_message on its own                                      *)

MessageHeads ==
    ConventionalTypes
    \cup { <<"F","e","a","t">>, <<"f","e","a","t","u","r","e">>,
           <<"a","d","d","e","d">>, <<SP,"f","i","x">>, <<>> }

MessageScopes ==
    { <<>>, <<"(","c","l","i",")">>, <<"(",")">>, <<"(","a",NL,"b",")">>,
      <<"(","a",")","(","b",")">>, <<"(","c">>, <<"!">> }

MessageSeparators == { <<":", SP>>, <<":">>, <<SP>> }

MessageDescriptions == { <<>>, <<"x">>, <<"a",SP,"b">>, <<SP>> }

MessageTails ==
    { <<>>, <<NL>>, <<NL, NL>>, <<NL, "b">>, <<NL, NL, "b", "o", "d", "y">>, <<"\r">> }

ValidateInputs ==
    { h \o sc \o sep \o d \o tl :
        h \in MessageHeads, sc \in MessageScopes, sep \in MessageSeparators,
        d \in MessageDescriptions, tl \in MessageTails }

InitValidate ==
    /\ tool = "none"
    /\ pc = "val_start"
    /\ message \in ValidateInputs
    /\ response = Resp("None", NoText)
    /\ isRepo = TRUE /\ openSource = FALSE
    /\ changelogStaged = <<>> /\ diffOut = <<>>
    /\ apiKey = PyNone /\ writable = TRUE
    /\ file0 = <<>> /\ file = <<>>
    /\ httpCalls = 0 /\ writes = 0
    /\ result = NoResult
    /\ valid = FALSE
    /\ out = {} /\ exc = "none"

\* validate_commit_message(message)
ApplyValidate ==
    /\ pc = "val_start"
    /\ valid' = ValidateCommitMessage(message)
    /\ pc' = "val_done"
    /\ UNCHANGED <<inputs, file, httpCalls, writes, response, result, message, out, exc>>

NextValidate == ApplyValidate

SpecValidate == InitValidate /\ [][NextValidate]_vars

---------------------------------------------------------------------------
(* Properties                                                              *)

\* the process is over: main returned, or an exception ended it
Terminated == pc \in {"done", "crashed"}

\* the request was performed and answered with HTTP 2xx
RequestSucceeded == httpCalls >= 1 /\ pc \in {"tail", "done", "crashed"}
                    /\ response.kind # "None"

HasLeadingWs(s) == Len(s) > 0 /\ IsSpace(s[1])
HasTrailingWs(s) == Len(s) > 0 /\ IsSpace(s[Len(s)])
Trimmed(s) == ~HasLeadingWs(s) /\ ~HasTrailingWs(s)

\* s begins with a backslash followed by a letter
BeginsWithEscape(s) == Len(s) >= 2 /\ s[1] = BS /\ IsLetter(s[2])

\* s ends with a backslash followed by letters only
EndsWithEscape(s) ==
    \E i \in 1..(Len(s) - 1) :
        s[i] = BS /\ \A j \in (i + 1)..Len(s) : IsLetter(s[j])

\* s holds a backslash directly followed by a letter
HasEscape(s) == \E i \in 1..(Len(s) - 1) : s[i] = BS /\ IsLetter(s[i + 1])

HasBackslash(s) == \E i \in 1..Len(s) : s[i] = BS

\* the text up to the first newline
FirstLine(m) ==
    LET nls == {i \in 1..Len(m) : m[i] = NL}
    IN  IF nls = {} THEN m
        ELSE Take(m, (CHOOSE k \in nls : \A j \in nls : k <= j) - 1)

\* C1: in the commit tool, whenever the guards pass, the request succeeds and
\* extraction yields a non-empty text T, the run ends with the destination
\* file holding exactly T, valid or not.
C1_CommitFileHoldsExtractedText ==
    ( /\ tool = "commit" /\ Terminated /\ RequestSucceeded /\ writable
      /\ ExtractCommitMessage(response).raised = "none"
      /\ Truthy(ExtractCommitMessage(response).val) )
    => /\ pc = "done"
       /\ file = ExtractCommitMessage(response).val.s

\* C2: in the changelog tool, whenever the guards pass and the response is
\* well formed with a non-empty string content, the run ends with the file
\* holding the sanitized content and reports success.
C2_ChangelogFileHoldsSanitizedContent ==
    ( /\ tool = "changelog" /\ Terminated /\ RequestSucceeded /\ writable
      /\ response.kind = "wf" /\ Len(response.text) > 0
      /\ Len(Sanitize(response.text)) > 0 )
    => /\ pc = "done"
       /\ file = Sanitize(response.text)
       /\ OK_WRITTEN \in out

\* C3: with an empty staged diff the commit tool performs no HTTP request.
C3_CommitNoStagedNoRequest ==
    (tool = "commit" /\ diffOut = <<>>) => httpCalls = 0

\* C4: with the API key unset or empty, neither tool performs an HTTP
\* request, whatever the repository state.
C4_NoKeyNoRequest ==
    (tool \in {"commit", "changelog"} /\ (apiKey.t = "None" \/ apiKey.s = <<>>))
    => httpCalls = 0

C4_Witness ==
    /\ pc = "done" /\ ERR_NO_API_KEY \in out
    /\ apiKey = PyStr(<<>>) /\ isRepo /\ httpCalls = 0

\* C5: when the changelog file is staged, the changelog tool performs no API
\* call, leaves the file alone and ends reporting the skip; with nothing
\* staged at all it is the same no-op.
C5_ChangelogSkipIsNoOp ==
    (tool = "changelog" /\ isRepo /\ (changelogStaged # <<>> \/ diffOut = <<>>))
    => /\ httpCalls = 0 /\ writes = 0 /\ file = file0 /\ pc # "crashed"
       /\ (pc = "done" /\ changelogStaged # <<>>) => out = {INFO_SKIP}
       /\ (pc = "done" /\ changelogStaged = <<>>) => out = {INFO_NO_STAGED}

C5_Witness ==
    /\ tool = "changelog" /\ pc = "done" /\ changelogStaged # <<>>
    /\ apiKey = PyStr(<<"k">>) /\ diffOut # <<>>
    /\ out = {INFO_SKIP} /\ httpCalls = 0 /\ file = file0

\* C6 as stated: for a well-formed response with string content, the text
\* extract_commit_message returns never begins or ends with whitespace.
C6_ReturnedTextIsTrimmed ==
    (pc = "ext_commit" /\ response.kind = "wf")
    => /\ result.raised = "none" /\ result.val.t = "str"
       /\ Trimmed(result.val.s)

\* C6 amended: for a well-formed response with string content S the text is
\* trimmed before the last substitution and the returned text holds no
\* backslash-letter pair; it begins (ends) with whitespace only where the
\* trimmed text began (ended) with a backslash-letters run; and when S holds
\* no backslash it is S with surrounding whitespace trimmed.
C6_TrimmedBeforeEscapeRemoval ==
    (pc = "ext_commit" /\ response.kind = "wf")
    => /\ result.raised = "none" /\ result.val.t = "str"
       /\ Trimmed(result.stripped)
       /\ ~HasEscape(result.val.s)
       /\ HasLeadingWs(result.val.s) => BeginsWithEscape(result.stripped)
       /\ HasTrailingWs(result.val.s) => EndsWithEscape(result.stripped)
       /\ ~HasBackslash(response.text)
          => /\ Trimmed(result.val.s)
             /\ \E a, b \in 0..Len(response.text) :
                  /\ a + b + Len(result.val.s) = Len(response.text)
                  /\ result.val.s = SubSeq(response.text, a + 1, Len(response.text) - b)
                  /\ \A i \in (1..a) \cup ((Len(response.text) - b + 1)..Len(response.text)) :
                        IsSpace(response.text[i])

C6_Witness ==
    /\ pc = "ext_commit" /\ response.kind = "wf"
    /\ result.raised = "none"
    /\ HasLeadingWs(result.val.s)
    /\ BeginsWithEscape(result.stripped)

\* C7: validate_commit_message(M) is true exactly when the first line of M
\* matches the conventional-commit pattern, whatever lines follow it.
C7_FirstLineDecides ==
    pc = "val_done" => (valid = ValidateCommitMessage(FirstLine(message)))

\* C8: whenever the primary lookup fails and the response, as raw text, holds
\* "content":"...", extraction yields the first quoted run after the key.
C8_FallbackYieldsQuotedRun ==
    ( /\ pc = "ext_commit"
      /\ PrimaryLookup(response).exc # "none"
      /\ ReSearchContent(response.text).found )
    => /\ result.raised = "none"
       /\ result.val = PyStr(Sanitize(ReSearchContent(response.text).group))

\* C9: a run issues at most one HTTP request and writes the file at most
\* once, only after a successful request and a non-empty extraction; on every
\* other path the file is as it was at the start.
C9_OneRequestOneWriteInOrder ==
    /\ httpCalls <= 1
    /\ writes <= 1
    /\ (writes = 1 \/ file # file0)
       => /\ RequestSucceeded
          /\ result.raised = "none" /\ Truthy(result.val)
          /\ file = result.val.s
    /\ (Terminated /\ (httpCalls = 0 \/ response.kind = "None" \/ exc # "none"
                       \/ ERR_EXTRACT \in out \/ ERR_GENERATE \in out))
       => file = file0 /\ writes = 0

C9_Witness ==
    /\ pc = "done" /\ httpCalls = 1 /\ response.kind = "wf"
    /\ ERR_EXTRACT \in out
    /\ file0 = OldText /\ file = file0 /\ writes = 0

\* C10: when the primary lookup fails and the fallback pattern finds no
\* match in the response text, extract_commit_message does not raise: it
\* returns an empty result, which its caller reports as a failed extraction.
C10_NoMatchReturnsEmpty ==
    ( /\ pc = "ext_commit"
      /\ response.kind = "str"
      /\ PrimaryLookup(response).exc # "none"
      /\ ~ReSearchContent(response.text).found )
    => /\ result.raised = "none"
       /\ ~Truthy(result.val)

=============================================================================
